---- MODULE Spec2Model ----
(***************************************************************************)
(* Placement planners of alpa_serve/placement_policy/model_parallelism.py: *)
(* the capability model, the ILP planner, the uniform-greedy planner, the  *)
(* enumerative search planner and its greedy constructive variant.         *)
(*                                                                         *)
(* Times (SLO, stage latencies) and memory are integers in a common unit.  *)
(* A capability max_cap * 0.99 ** num_stages is kept as the pair           *)
(* (max_cap, num_stages); two capabilities of the same num_stages compare  *)
(* as their max_cap, and a capability is 0 exactly when max_cap is 0.      *)
(***************************************************************************)
EXTENDS Integers, Sequences, FiniteSets, TLC

VARIABLES
    cluster_env,    \* ClusterEnv: num_devices, num_devices_per_node, mem_budget
    model_datas,    \* List[ModelData]: rate, slo, para_dict
    policy,         \* the planner object's attributes
    ret,            \* outcome of the last planner call
    cap_args,       \* (parallel_config, max_bs) of the compute_capability calls
    cap_log,        \* slo -> outcome of compute_capability for that slo
    sols,           \* list returned by enumerate_group_configs
    beam            \* state of the loops of greedy_group_configs

vars == <<cluster_env, model_datas, policy, ret, cap_args, cap_log, sols, beam>>

----------------------------------------------------------------------------
(* Bounds of the model *)

MaxSLO == 6
MaxLat == 2
MaxBatch == 2

----------------------------------------------------------------------------
(* Helpers: Python built-ins on lists *)

RECURSIVE SumSeq(_)
SumSeq(s) == IF s = <<>> THEN 0 ELSE Head(s) + SumSeq(Tail(s))

MaxSet(S) == CHOOSE x \in S : \A y \in S : y <= x

MaxSeq(s) == MaxSet({s[i] : i \in 1..Len(s)})

Repeat(x, n) == [i \in 1..n |-> x]

----------------------------------------------------------------------------
(* Data model *)

\* ParallelConfig(dp, op, pp)
ParallelConfig(dp, op, pp) == <<dp, op, pp>>

pp_of(cfg) == cfg[3]

\* np.prod(cfg)
GroupSize(cfg) == cfg[1] * cfg[2] * cfg[3]

\* A profile entry of a config with the given per-stage figures: the
\* latency of stage st at batch size b is l * b + (st - 1), the weight of
\* every stage is w.
ProfileEntry(cfg, l, w) ==
    [latency |-> [b \in 1..MaxBatch |->
                     [st \in 1..pp_of(cfg) |-> l * b + (st - 1)]],
     weight_mem |-> Repeat(w, pp_of(cfg))]

\* para_dict of a model profiled on the configs cfgs
ParaDict(cfgs, l, w) == [cfg \in cfgs |-> ProfileEntry(cfg, l, w)]

ModelData(rate, slo, para_dict) ==
    [rate |-> rate, slo |-> slo, para_dict |-> para_dict]

ClusterEnv(num_devices, num_devices_per_node, mem_budget) ==
    [num_devices |-> num_devices,
     num_devices_per_node |-> num_devices_per_node,
     mem_budget |-> mem_budget]

ModelPlacement(group_configs, group_models) ==
    [group_configs |-> group_configs, group_models |-> group_models]

----------------------------------------------------------------------------
(* compute_capability *)

CapValue(max_cap, num_stages) ==
    [err |-> "none", max_cap |-> max_cap, num_stages |-> num_stages]

CapError(e) == [err |-> e, max_cap |-> 0, num_stages |-> 0]

\* The slo term of one profiled batch size, as a mutation would compute it
\* with the operands of the subtraction swapped.
cap_of_batch_swapped(slo, ls) == (SumSeq(ls) - slo) \div MaxSeq(ls) + 1

\* (slo - sum(ls)) // max(ls) + 1
cap_of_batch(slo, ls) == (slo - SumSeq(ls)) \div MaxSeq(ls) + 1

compute_capability(model_data, parallel_config, max_bs) ==
    LET slo == model_data.slo
        para_dict == model_data.para_dict
    IN  IF parallel_config \notin DOMAIN para_dict
        THEN CapValue(0, 0)
        ELSE LET latency == para_dict[parallel_config].latency
                 num_stages == pp_of(parallel_config)
                 bs == {b \in DOMAIN latency : b <= max_bs}
             IN  IF \E b \in bs : MaxSeq(latency[b]) = 0
                 THEN CapError("ZeroDivisionError")
                 ELSE CapValue(
                        MaxSet({0} \cup {cap_of_batch(slo, latency[b]) : b \in bs}),
                        num_stages)

----------------------------------------------------------------------------
(* Specification of the capability model: one model profile, one config   *)
(* and max_bs, and calls of compute_capability for varying SLOs.          *)

CapConfigs == {ParallelConfig(1, 1, 1), ParallelConfig(1, 1, 2),
               ParallelConfig(1, 2, 1)}

NoPolicy == [max_bs |-> 1, max_pp |-> 1, max_op |-> 1, group_size |-> 1,
             beam_size |-> 1]

NoRet == [op |-> "none", err |-> "none", group_configs |-> <<>>,
          group_models |-> <<>>]

NoBeam == [pc |-> "idle"]

NoCluster == ClusterEnv(1, 1, 1)

InitCap ==
    /\ \E cfgs \in SUBSET CapConfigs, l \in 0..MaxLat :
          model_datas = <<ModelData(1, 0, ParaDict(cfgs, l, 1))>>
    /\ \E cfg \in CapConfigs, max_bs \in 1..MaxBatch :
          cap_args = [parallel_config |-> cfg, max_bs |-> max_bs]
    /\ cap_log = <<>>
    /\ cluster_env = NoCluster
    /\ policy = NoPolicy
    /\ ret = NoRet
    /\ sols = <<>>
    /\ beam = NoBeam

\* A call compute_capability(model_data, parallel_config, max_bs) for a
\* ModelData of the profile at hand and the SLO slo.
ComputeCapability ==
    \E slo \in 0..MaxSLO :
        /\ slo \notin DOMAIN cap_log
        /\ cap_log' = (slo :> compute_capability(
                                 [model_datas[1] EXCEPT !.slo = slo],
                                 cap_args.parallel_config, cap_args.max_bs))
                       @@ cap_log
        /\ UNCHANGED <<cluster_env, model_datas, policy, ret, cap_args, sols, beam>>

SpecCap == InitCap /\ [][ComputeCapability]_vars

\* The config of the calls is infeasible for the model: it is absent from
\* the profile, or some profiled batch size b <= max_bs has a maximum stage
\* latency of 0.
CapInfeasible ==
    LET para_dict == model_datas[1].para_dict
        cfg == cap_args.parallel_config
    IN  \/ cfg \notin DOMAIN para_dict
        \/ \E b \in DOMAIN para_dict[cfg].latency :
              b <= cap_args.max_bs /\ MaxSeq(para_dict[cfg].latency[b]) = 0

\* C7: compute_capability returns 0 and does not fail for an infeasible
\* config, be it absent from the profile or of maximum stage latency 0.
C7_InfeasibleReturnsZero ==
    CapInfeasible =>
        \A slo \in DOMAIN cap_log :
            cap_log[slo].err = "none" /\ cap_log[slo].max_cap = 0

\* C8: for a fixed profile, config and max_bs the capability is monotone
\* non-decreasing in the SLO and never negative; a call that fails does so
\* for every SLO alike, so no SLO turns a result into a failure.
C8_MonotoneInSLO ==
    \A slo1 \in DOMAIN cap_log, slo2 \in DOMAIN cap_log :
        slo1 <= slo2 =>
            /\ cap_log[slo1].err = cap_log[slo2].err
            /\ cap_log[slo1].num_stages = cap_log[slo2].num_stages
            /\ 0 <= cap_log[slo1].max_cap
            /\ cap_log[slo1].max_cap <= cap_log[slo2].max_cap

\* Two calls returned: one for an SLO below the sum of the stage latencies
\* of every batch size (capability 0), one for a larger SLO with a larger
\* capability.
C8_Witness ==
    LET para_dict == model_datas[1].para_dict
        cfg == cap_args.parallel_config
    IN  /\ cfg \in DOMAIN para_dict
        /\ \E slo1 \in DOMAIN cap_log, slo2 \in DOMAIN cap_log :
              /\ slo1 < slo2
              /\ \A b \in DOMAIN para_dict[cfg].latency :
                    slo1 < SumSeq(para_dict[cfg].latency[b])
              /\ cap_log[slo1].err = "none" /\ cap_log[slo2].err = "none"
              /\ cap_log[slo1].max_cap = 0
              /\ cap_log[slo2].max_cap > 1

----------------------------------------------------------------------------
(* Outcomes of a planner call *)

Returned(op, sol) ==
    [op |-> op, err |-> "none", group_configs |-> sol.group_configs,
     group_models |-> sol.group_models]

Raised(op, e) ==
    [op |-> op, err |-> e, group_configs |-> <<>>, group_models |-> <<>>]

----------------------------------------------------------------------------
(* ModelParallelismILP *)

\* self.group_configs of __init__; index 1 here is index 0 of the code
ILP_group_configs ==
    <<ParallelConfig(0, 0, 0), ParallelConfig(1, 1, 1), ParallelConfig(1, 1, 2),
      ParallelConfig(1, 1, 4), ParallelConfig(1, 1, 8)>>

\* self.group_sizes of __init__
ILP_group_sizes == [k \in DOMAIN ILP_group_configs |-> GroupSize(ILP_group_configs[k])]

\* self.max_bs of __init__
ILP_max_bs == 1

compute_max_stage_mem(model_data, parallel_config, mem_budget) ==
    IF parallel_config \notin DOMAIN model_data.para_dict
    THEN mem_budget * 2
    ELSE MaxSeq(model_data.para_dict[parallel_config].weight_mem)

\* c[i]: the weight of the first stage of the model on ParallelConfig(1, 1, 1)
ILP_c(mds) ==
    [i \in DOMAIN mds |-> mds[i].para_dict[ParallelConfig(1, 1, 1)].weight_mem[1]]

\* f[i][k]
ILP_f(mds) ==
    [i \in DOMAIN mds |->
        [k \in DOMAIN ILP_group_configs |->
            compute_capability(mds[i], ILP_group_configs[k], ILP_max_bs)]]

\* An assignment of the binary variables: s[j] is the k whose s[j][k] is 1
\* (constraint (e): exactly one for every j), p[i][j] is 0 or 1; pxs[i][j][k]
\* is then fixed by the linearization (f), and min_tolerance = 0 satisfies
\* (c) for positive rates as no capability is negative.

\* (d) without the idle slots' share: a mutation that counts the slots in use
ILP_group_size_constraint_slots(s, M) ==
    Cardinality({j \in DOMAIN s : ILP_group_sizes[s[j]] # 0}) <= M

\* (d). group size: sum_j sum_k s[j][k] * g[k] == M
ILP_group_size_constraint(s, M) ==
    SumSeq([j \in DOMAIN s |-> ILP_group_sizes[s[j]]]) = M

\* (a). memory budget on each GPU:
\* sum_i p[i][j] * (c[i] / C) <= sum_k s[j][k] * g[k], both sides times C
ILP_memory_constraint(p, s, c, C, j) ==
    SumSeq([i \in DOMAIN p |-> p[i][j] * c[i]]) <= ILP_group_sizes[s[j]] * C

\* The assignments that satisfy the constraints
ILP_feasible(mds, env) ==
    LET N == Len(mds)
        G == env.num_devices
        c == ILP_c(mds)
        S == {s \in [1..G -> DOMAIN ILP_group_configs] :
                 ILP_group_size_constraint(s, env.num_devices)}
        P == [1..N -> [1..G -> {0, 1}]]
    IN  UNION {{[s |-> s, p |-> p] :
                  p \in {q \in P : \A j \in 1..G :
                            ILP_memory_constraint(q, s, c, env.mem_budget, j)}} :
               s \in S}

\* Group configuration selection and placement: a group for every slot j,
\* in order, whose config has a size other than 0
RECURSIVE ILP_decode_from(_, _, _)
ILP_decode_from(a, j, sol) ==
    IF j > Len(a.s) THEN sol
    ELSE ILP_decode_from(a, j + 1,
            IF ILP_group_sizes[a.s[j]] # 0
            THEN ModelPlacement(
                    Append(sol.group_configs, ILP_group_configs[a.s[j]]),
                    Append(sol.group_models, {i \in DOMAIN a.p : a.p[i][j] = 1}))
            ELSE sol)

ILP_decode(a) == ILP_decode_from(a, 1, ModelPlacement(<<>>, <<>>))

\* What solve_placement can end with: the KeyError of the lookup of
\* ParallelConfig(1, 1, 1) (line 87), the ZeroDivisionError of a capability
\* (line 99) or of cap[i] / a[i] (line 134), the RuntimeError of an
\* infeasible problem, or the decoding of an assignment that satisfies the
\* constraints: the optimum or, on a timeout, an incumbent. The solver is
\* taken to find an assignment when there is one. d[i][k] of lines 100-101
\* is in no constraint (the one of lines 122-125 is commented out).
ILP_solve_placement(mds, env) ==
    IF \E i \in DOMAIN mds : ParallelConfig(1, 1, 1) \notin DOMAIN mds[i].para_dict
    THEN {Raised("ILP", "KeyError")}
    ELSE IF \E i \in DOMAIN mds, k \in DOMAIN ILP_group_configs :
               ILP_f(mds)[i][k].err # "none"
    THEN {Raised("ILP", "ZeroDivisionError")}
    ELSE IF \E i \in DOMAIN mds : mds[i].rate = 0
    THEN {Raised("ILP", "ZeroDivisionError")}
    ELSE LET F == ILP_feasible(mds, env)
         IN  IF F = {}
             THEN {Raised("ILP", "RuntimeError")}
             ELSE {Returned("ILP", ILP_decode(a)) : a \in F}

ILPSolvePlacement ==
    /\ ret.op = "none"
    /\ \E r \in ILP_solve_placement(model_datas, cluster_env) : ret' = r
    /\ UNCHANGED <<cluster_env, model_datas, policy, cap_args, cap_log, sols, beam>>

----------------------------------------------------------------------------
(* Collaborators of base_policy and util, after the specification *)

RECURSIVE SortedFrom(_, _)
SortedFrom(S, acc) ==
    IF S = {} THEN acc
    ELSE LET x == CHOOSE y \in S : \A z \in S : y <= z
         IN  SortedFrom(S \ {x}, Append(acc, x))

\* get_factors(n): the divisors of n, each once, ascending
get_factors(n) == SortedFrom({d \in 1..n : n % d = 0}, <<>>)

\* Model i fits group gi of sol beside the models already there: the group's
\* config is in its profile and the largest stage weights add up to at most
\* the memory budget.
FitsGroup(sol, gi, i, mds, env) ==
    LET cfg == sol.group_configs[gi]
    IN  /\ cfg \in DOMAIN mds[i].para_dict
        /\ \A m \in sol.group_models[gi] : cfg \in DOMAIN mds[m].para_dict
        /\ SumSeq([m \in DOMAIN mds |->
                     IF m \in sol.group_models[gi] \cup {i}
                     THEN compute_max_stage_mem(mds[m], cfg, env.mem_budget)
                     ELSE 0]) <= env.mem_budget

\* The placements one insertion of a replica leads to
InsertOne(sol, mds, env) ==
    {[sol EXCEPT !.group_models[gi] = @ \cup {i}] :
        <<gi, i>> \in {x \in (DOMAIN sol.group_configs) \X (DOMAIN mds) :
                          /\ x[2] \notin sol.group_models[x[1]]
                          /\ FitsGroup(sol, x[1], x[2], mds, env)}}

RECURSIVE InsertUpTo(_, _, _, _)
InsertUpTo(S, n, mds, env) ==
    IF n = 0 THEN S
    ELSE LET T == S \cup UNION {InsertOne(sol, mds, env) : sol \in S}
         IN  IF T = S THEN S ELSE InsertUpTo(T, n - 1, mds, env)

\* replica_placement_fast_greedy: replicas are inserted one at a time, each
\* into a group with memory left, while the evaluator's score improves; the
\* evaluator is an oracle, so every number of insertions is possible. The
\* group configs are those of the skeleton.
replica_placement_fast_greedy(sol, mds, env) ==
    InsertUpTo({sol}, Len(sol.group_configs) * Len(mds), mds, env)

\* replica_placement_on_last_group: as fast_greedy, on the last group only
replica_placement_on_last_group(sol, mds, env) ==
    {t \in replica_placement_fast_greedy(sol, mds, env) :
        \A gi \in 1..(Len(sol.group_configs) - 1) :
            t.group_models[gi] = sol.group_models[gi]}

----------------------------------------------------------------------------
(* ModelParallelismGreedy *)

\* [ParallelConfig(1, 1, group_size)] * num_groups, [[] ...]
Greedy_skeleton(group_size, num_groups) ==
    ModelPlacement(Repeat(ParallelConfig(1, 1, group_size), num_groups),
                   Repeat({}, num_groups))

\* What solve_placement can end with (add_evo_search is False, the default)
Greedy_solve_placement(group_size, mds, env) ==
    IF env.num_devices % group_size # 0
    THEN {Raised("Greedy", "AssertionError")}
    ELSE LET num_groups == env.num_devices \div group_size
         IN  {Returned("Greedy", sol) :
                sol \in replica_placement_fast_greedy(
                           Greedy_skeleton(group_size, num_groups), mds, env)}

GreedySolvePlacement ==
    /\ ret.op = "none"
    /\ \E group_size \in 1..cluster_env.num_devices :
          /\ policy' = [policy EXCEPT !.group_size = group_size]
          /\ \E r \in Greedy_solve_placement(group_size, model_datas, cluster_env) :
                ret' = r
    /\ UNCHANGED <<cluster_env, model_datas, cap_args, cap_log, sols, beam>>

----------------------------------------------------------------------------
(* ModelParallelismSearch *)

\* The test of enumerate_group_configs on a group size, as a mutation would
\* have it without the node boundary
crosses_node_boundary_never(group_size, num_devices_per_node) == FALSE

\* group_size > num_devices_per_node and group_size % num_devices_per_node != 0
crosses_node_boundary(group_size, num_devices_per_node) ==
    group_size > num_devices_per_node /\ group_size % num_devices_per_node # 0

\* The loop over pp in get_factors(group_size), from the pps left to visit
RECURSIVE enumerate_pp(_, _, _, _, _)
enumerate_pp(pps, group_size, num_devices, pol, acc) ==
    IF pps = <<>> THEN acc
    ELSE LET pp == Head(pps)
             op == group_size \div pp
             num_groups == num_devices \div group_size
         IN  enumerate_pp(Tail(pps), group_size, num_devices, pol,
                IF pp > pol.max_pp \/ op > pol.max_op
                THEN acc
                ELSE Append(acc, ModelPlacement(
                                    Repeat(ParallelConfig(1, op, pp), num_groups),
                                    Repeat({}, num_groups))))

\* The loop over group_size in get_factors(num_devices)
RECURSIVE enumerate_gs(_, _, _, _)
enumerate_gs(gss, env, pol, acc) ==
    IF gss = <<>> THEN acc
    ELSE LET group_size == Head(gss)
         IN  enumerate_gs(Tail(gss), env, pol,
                IF crosses_node_boundary(group_size, env.num_devices_per_node)
                THEN acc
                ELSE enumerate_pp(get_factors(group_size), group_size,
                                  env.num_devices, pol, acc))

enumerate_group_configs(env, pol) ==
    enumerate_gs(get_factors(env.num_devices), env, pol, <<>>)

\* What solve_placement can end with (n_iter = 1, add_evo_search False):
\* every skeleton is filled by fast_greedy and the evaluator, an oracle,
\* scores one of them best.
Search_solve_placement(pol, mds, env) ==
    LET initial_sols == enumerate_group_configs(env, pol)
    IN  IF initial_sols = <<>>
        THEN {Raised("Search", "ValueError")}
        ELSE UNION {{Returned("Search", sol) :
                       sol \in replica_placement_fast_greedy(initial_sols[i], mds, env)} :
                    i \in DOMAIN initial_sols}

\* max_pp and max_op a planner is constructed with; 8 and 4 are the defaults
MaxPPs == {1, 2, 8}
MaxOPs == {1, 2, 4}

SearchSolvePlacement ==
    /\ ret.op = "none"
    /\ \E max_pp \in {1, 8}, max_op \in {1, 4} :
          /\ policy' = [policy EXCEPT !.max_pp = max_pp, !.max_op = max_op]
          /\ \E r \in Search_solve_placement(policy', model_datas, cluster_env) :
                ret' = r
    /\ UNCHANGED <<cluster_env, model_datas, cap_args, cap_log, sols, beam>>

EnumerateGroupConfigs ==
    /\ ret.op = "none"
    /\ \E max_pp \in MaxPPs, max_op \in MaxOPs :
          /\ policy' = [policy EXCEPT !.max_pp = max_pp, !.max_op = max_op]
          /\ sols' = enumerate_group_configs(cluster_env, policy')
    /\ ret' = [ret EXCEPT !.op = "enumerate"]
    /\ UNCHANGED <<cluster_env, model_datas, cap_args, cap_log, beam>>

----------------------------------------------------------------------------
(* Specification of the planners: a cluster, a list of models, and one    *)
(* call of a planner's solve_placement.                                   *)

MaxDevices == 6
MaxModels == 2
\* at most this many variables p[i][j] in a planning problem
MaxPVars == 6

Rates == {0, 1}
Weights == {1, 2}
MemBudgets == {1, 2}
PlannerSLO == 4
ProfiledConfigs ==
    {{}, {ParallelConfig(1, 1, 1)},
     {ParallelConfig(1, 1, 1), ParallelConfig(1, 1, 2)}}

\* The models of a planning problem: profiled on some configs with stage
\* latency 1, or on ParallelConfig(1, 1, 1) alone with stage latency 0
PlannerModels ==
    {ModelData(r, PlannerSLO, ParaDict(cfgs, 1, w)) :
        r \in Rates, cfgs \in ProfiledConfigs, w \in Weights}
    \cup {ModelData(1, PlannerSLO, ParaDict({ParallelConfig(1, 1, 1)}, 0, 1))}

\* The clusters of up to max_devices devices: num_devices is a multiple of
\* num_devices_per_node
Clusters(max_devices, budgets) ==
    {ClusterEnv(m, n, c) :
        <<m, n, c>> \in {x \in (1..max_devices) \X (1..max_devices) \X budgets :
                            x[1] % x[2] = 0}}

Init ==
    /\ \E N \in 1..MaxModels :
          /\ model_datas \in [1..N -> PlannerModels]
          /\ cluster_env \in {env \in Clusters(MaxDevices, MemBudgets) :
                                 N * env.num_devices <= MaxPVars}
    /\ policy = NoPolicy
    /\ ret = NoRet
    /\ cap_args = [parallel_config |-> ParallelConfig(1, 1, 1), max_bs |-> 1]
    /\ cap_log = <<>>
    /\ sols = <<>>
    /\ beam = NoBeam

Next ==
    \/ ILPSolvePlacement
    \/ GreedySolvePlacement
    \/ SearchSolvePlacement

Spec == Init /\ [][Next]_vars

----------------------------------------------------------------------------
(* Specification of the skeleton enumeration alone, on larger clusters    *)

MaxEnumDevices == 16

InitEnum ==
    /\ cluster_env \in Clusters(MaxEnumDevices, MemBudgets)
    /\ model_datas = <<>>
    /\ policy = NoPolicy
    /\ ret = NoRet
    /\ cap_args = [parallel_config |-> ParallelConfig(1, 1, 1), max_bs |-> 1]
    /\ cap_log = <<>>
    /\ sols = <<>>
    /\ beam = NoBeam

SpecEnum == InitEnum /\ [][EnumerateGroupConfigs]_vars

----------------------------------------------------------------------------
(* Properties of the planners' placements *)

PlannerReturned == ret.op \in {"ILP", "Greedy", "Search"} /\ ret.err = "none"

GroupSizes == [gi \in DOMAIN ret.group_configs |-> GroupSize(ret.group_configs[gi])]

\* C1: every group size of a placement returned by one of the three
\* planners is at most num_devices_per_node or a multiple of it.
C1_NodeBoundaryRule ==
    PlannerReturned =>
        \A gi \in DOMAIN GroupSizes :
            \/ GroupSizes[gi] <= cluster_env.num_devices_per_node
            \/ GroupSizes[gi] % cluster_env.num_devices_per_node = 0

\* C2: the group sizes of a returned placement sum to at most num_devices,
\* and to exactly num_devices for the ILP planner, whose idle slots (size 0)
\* are dropped by the decoding.
C2_SumOfGroupSizes ==
    PlannerReturned =>
        /\ SumSeq(GroupSizes) <= cluster_env.num_devices
        /\ ret.op = "ILP" =>
              /\ SumSeq(GroupSizes) = cluster_env.num_devices
              /\ \A gi \in DOMAIN GroupSizes : GroupSizes[gi] # 0

\* The ILP planner returned fewer groups than slots (idle slots dropped),
\* of different sizes, one of them with a model.
C2_Witness ==
    /\ PlannerReturned /\ ret.op = "ILP"
    /\ Len(ret.group_configs) < cluster_env.num_devices
    /\ \E g1 \in DOMAIN GroupSizes, g2 \in DOMAIN GroupSizes :
          GroupSizes[g1] # GroupSizes[g2] /\ ret.group_models[g1] # {}

\* The profile and rate of every model let the ILP be built: no lookup of
\* ParallelConfig(1, 1, 1) fails and no capability computation fails.
ILPInputsProfiled ==
    \A i \in DOMAIN model_datas :
        /\ ParallelConfig(1, 1, 1) \in DOMAIN model_datas[i].para_dict
        /\ \A k \in DOMAIN ILP_group_configs :
              compute_capability(model_datas[i], ILP_group_configs[k],
                                 ILP_max_bs).err = "none"

\* C4: with a single model whose weight exceeds the memory budget for every
\* config, the ILP planner raises the memory-budget error.
C4_InfeasibleBudgetRaised ==
    ( /\ ret.op = "ILP"
      /\ Len(model_datas) = 1
      /\ ILPInputsProfiled
      /\ model_datas[1].rate > 0
      /\ \A cfg \in DOMAIN model_datas[1].para_dict :
            MaxSeq(model_datas[1].para_dict[cfg].weight_mem) > cluster_env.mem_budget )
    => ret.err = "RuntimeError"

\* C5: with a model that has no profile entry at all the ILP planner does
\* not fail and leaves that model unplaced.
C5_MissingProfileUnplaced ==
    ret.op = "ILP" =>
        \A i \in DOMAIN model_datas :
            DOMAIN model_datas[i].para_dict = {} =>
                /\ ret.err = "none"
                /\ \A gi \in DOMAIN ret.group_models : i \notin ret.group_models[gi]

\* C6: with a model of request rate 0 the ILP planner does not fail.
C6_ZeroRateSkipped ==
    ( /\ ret.op = "ILP"
      /\ ILPInputsProfiled
      /\ \E i \in DOMAIN model_datas : model_datas[i].rate = 0 )
    => ret.err = "none"

\* C9: in a placement the ILP planner returns, every model of a group has
\* the group's config in its profile.
C9_GroupConfigProfiled ==
    (ret.op = "ILP" /\ ret.err = "none") =>
        \A gi \in DOMAIN ret.group_configs :
            \A i \in ret.group_models[gi] :
                ret.group_configs[gi] \in DOMAIN model_datas[i].para_dict

----------------------------------------------------------------------------
(* Properties of the skeleton enumeration *)

\* The pair (group_size, pp) passes the tests of enumerate_group_configs
ValidPair(gs, pp) ==
    /\ cluster_env.num_devices % gs = 0
    /\ ~(/\ gs > cluster_env.num_devices_per_node
         /\ gs % cluster_env.num_devices_per_node # 0)
    /\ gs % pp = 0
    /\ pp <= policy.max_pp
    /\ gs \div pp <= policy.max_op

SkeletonOf(gs, pp) ==
    ModelPlacement(Repeat(ParallelConfig(1, gs \div pp, pp),
                          cluster_env.num_devices \div gs),
                   Repeat({}, cluster_env.num_devices \div gs))

ValidPairs ==
    {x \in (1..cluster_env.num_devices) \X (1..cluster_env.num_devices) :
        ValidPair(x[1], x[2])}

SkeletonGroupSizes ==
    {GroupSize(sols[i].group_configs[gi]) :
        <<i, gi>> \in {x \in (DOMAIN sols) \X (1..cluster_env.num_devices) :
                          x[2] \in DOMAIN sols[x[1]].group_configs}}

\* C3: enumerate_group_configs emits exactly one skeleton for every valid
\* pair (gs, pp), of num_devices / gs groups of config (1, gs / pp, pp) with
\* no models, and no other skeleton; on 16 devices in nodes of 8 a skeleton
\* of group size 16 is emitted (max_pp 8, max_op 4) and none of size 12; on
\* one device only groups of size 1.
C3_EnumerateExact ==
    ret.op = "enumerate" =>
        /\ \A x \in ValidPairs :
              Cardinality({i \in DOMAIN sols : sols[i] = SkeletonOf(x[1], x[2])}) = 1
        /\ \A i \in DOMAIN sols : \E x \in ValidPairs : sols[i] = SkeletonOf(x[1], x[2])
        /\ Len(sols) = Cardinality(ValidPairs)
        /\ ( /\ cluster_env.num_devices = 16
             /\ cluster_env.num_devices_per_node = 8
             /\ policy.max_pp = 8 /\ policy.max_op = 4 )
           => (16 \in SkeletonGroupSizes /\ 12 \notin SkeletonGroupSizes)
        /\ cluster_env.num_devices = 1 => SkeletonGroupSizes = {1}

\* The enumeration returned for 16 devices in nodes of 8, with a skeleton of
\* one group of 16 devices among several.
C3_Witness ==
    /\ ret.op = "enumerate"
    /\ cluster_env.num_devices = 16
    /\ cluster_env.num_devices_per_node = 8
    /\ 16 \in SkeletonGroupSizes
    /\ Len(sols) > 4

----------------------------------------------------------------------------
(* ModelParallelismSearch.greedy_group_configs                             *)
(*                                                                         *)
(* beam.beam_sols[n + 1] is beam_sols[n] of the code. The three inner      *)
(* loops of one cur_num visit the triples (last_group_size, pp, index of   *)
(* the parent in beam_sols[cur_num - last_group_size]) in the order of     *)
(* beam_triples; beam.k is the position of the next one.                   *)

\* ModelPlacement.copy(): a placement of its own, equal to sol
copy(sol) == ModelPlacement(sol.group_configs, sol.group_models)

\* The parents of one (last_group_size, pp): for sol in beam_sols[...]
beam_parents(lgs, pp, n_parents) == [si \in 1..n_parents |-> <<lgs, pp, si>>]

\* for pp in get_factors(last_group_size), from the pps left to visit
RECURSIVE beam_pp(_, _, _, _, _)
beam_pp(pps, lgs, n_parents, pol, acc) ==
    IF pps = <<>> THEN acc
    ELSE LET pp == Head(pps)
             op == lgs \div pp
         IN  beam_pp(Tail(pps), lgs, n_parents, pol,
                IF pp > pol.max_pp \/ op > pol.max_op
                THEN acc
                ELSE acc \o beam_parents(lgs, pp, n_parents))

\* The loop over last_group_size as a mutation would bound it: by the size
\* of a node and by cur_num, whatever the place of cur_num in its node
RECURSIVE beam_lgs_unaligned(_, _, _, _, _, _)
beam_lgs_unaligned(lgs, cur_num, beam_sols, env, pol, acc) ==
    IF lgs > cur_num \/ lgs > env.num_devices_per_node THEN acc
    ELSE beam_lgs_unaligned(lgs + 1, cur_num, beam_sols, env, pol,
            beam_pp(get_factors(lgs), lgs, Len(beam_sols[cur_num - lgs + 1]),
                    pol, acc))

\* for last_group_size in range(1, (cur_num - 1) % num_devices_per_node + 1 + 1)
RECURSIVE beam_lgs(_, _, _, _, _, _)
beam_lgs(lgs, cur_num, beam_sols, env, pol, acc) ==
    IF lgs > ((cur_num - 1) % env.num_devices_per_node) + 1 THEN acc
    ELSE beam_lgs(lgs + 1, cur_num, beam_sols, env, pol,
            beam_pp(get_factors(lgs), lgs, Len(beam_sols[cur_num - lgs + 1]),
                    pol, acc))

beam_triples(cur_num, beam_sols, env, pol) ==
    beam_lgs(1, cur_num, beam_sols, env, pol, <<>>)

\* The extension of a parent as a mutation would have it without the copy:
\* pre_sol is the parent itself, which the appends then change.
beam_extend_in_place(sol, cfg) ==
    LET pre_sol == ModelPlacement(Append(sol.group_configs, cfg),
                                  Append(sol.group_models, {}))
    IN  [sol |-> pre_sol, pre_sol |-> pre_sol]

\* pre_sol = sol.copy(); pre_sol.group_configs.append(cfg);
\* pre_sol.group_models.append([]): the parent and pre_sol afterwards
beam_extend(sol, cfg) ==
    LET pre_sol == copy(sol)
    IN  [sol |-> sol,
         pre_sol |-> ModelPlacement(Append(pre_sol.group_configs, cfg),
                                    Append(pre_sol.group_models, {}))]

NoExtension == [done |-> FALSE]

MaxBeamDevices == 2
MaxBeamSize == 2
BeamMaxPPs == {1, 8}
BeamMaxOPs == {1, 4}

\* The models of a greedy construction: profiled on ParallelConfig(1, 1, 1),
\* and on ParallelConfig(1, 1, 2) or not
BeamModels ==
    {ModelData(1, PlannerSLO, ParaDict(cfgs, 1, 1)) :
        cfgs \in ProfiledConfigs \ {{}}}

\* The call of greedy_group_configs, up to the first cur_num, on a planner
\* constructed with max_pp and max_op among pps and ops, called with a
\* beam_size among beam_sizes
BeamStartWith(pps, ops, beam_sizes) ==
    /\ beam.pc = "idle"
    /\ \E max_pp \in pps, max_op \in ops, beam_size \in beam_sizes :
          policy' = [policy EXCEPT !.max_pp = max_pp, !.max_op = max_op,
                                   !.beam_size = beam_size]
    /\ beam' = [pc |-> "extend", cur_num |-> 1, k |-> 1,
                beam_sols |-> <<<<ModelPlacement(<<>>, <<>>)>>>>,
                next_sols |-> <<>>, last |-> NoExtension]
    /\ UNCHANGED <<cluster_env, model_datas, ret, cap_args, cap_log, sols>>

BeamStart == BeamStartWith(BeamMaxPPs, BeamMaxOPs, 1..MaxBeamSize)

\* One pass of the innermost loop body: a parent is extended by a last
\* group and filled by replica_placement_fast_greedy
BeamExtend ==
    /\ beam.pc = "extend"
    /\ LET triples == beam_triples(beam.cur_num, beam.beam_sols, cluster_env, policy)
           lgs == triples[beam.k][1]
           pp == triples[beam.k][2]
           si == triples[beam.k][3]
           n == beam.cur_num - lgs + 1
           sol == beam.beam_sols[n][si]
           ext == beam_extend(sol, ParallelConfig(1, lgs \div pp, pp))
       IN  /\ beam.k <= Len(triples)
           /\ \E new_sol \in replica_placement_fast_greedy(ext.pre_sol, model_datas,
                                                            cluster_env) :
                 beam' = [beam EXCEPT
                            !.beam_sols[n][si] = ext.sol,
                            !.next_sols = Append(@, new_sol),
                            !.k = @ + 1,
                            !.pc = IF beam.k = Len(triples) THEN "select" ELSE "extend",
                            !.last = [done |-> TRUE, parent |-> sol,
                                      parent_after |-> ext.sol,
                                      last_group_size |-> lgs,
                                      pre_sol |-> ext.pre_sol, new_sol |-> new_sol]]
    /\ UNCHANGED <<cluster_env, model_datas, policy, ret, cap_args, cap_log, sols>>

\* The sequences of n different indices among 1..len
Picks(len, n) ==
    {q \in [1..n -> 1..len] : \A a \in 1..n, b \in 1..n : a # b => q[a] # q[b]}

\* scores = evaluator.get_scores(next_sols); the beam_size best, best first.
\* The evaluator is an oracle: any order of the scores is possible.
BeamSelect ==
    /\ beam.pc = "select"
    /\ LET len == Len(beam.next_sols)
           n == IF policy.beam_size < len THEN policy.beam_size ELSE len
           last_num == beam.cur_num = cluster_env.num_devices
       IN  \E next_indices \in Picks(len, n) :
              LET kept == [i \in 1..n |-> beam.next_sols[next_indices[i]]]
              IN  /\ beam' = [beam EXCEPT
                                !.beam_sols = Append(@, kept),
                                !.next_sols = <<>>,
                                !.k = 1,
                                !.cur_num = IF last_num THEN @ ELSE @ + 1,
                                !.pc = IF last_num THEN "done" ELSE "extend"]
                  /\ sols' = IF last_num THEN kept ELSE sols
    /\ UNCHANGED <<cluster_env, model_datas, policy, ret, cap_args, cap_log>>

InitBeam ==
    /\ cluster_env \in Clusters(MaxBeamDevices, {1})
    /\ model_datas \in [1..1 -> BeamModels]
    /\ policy = NoPolicy
    /\ ret = NoRet
    /\ cap_args = [parallel_config |-> ParallelConfig(1, 1, 1), max_bs |-> 1]
    /\ cap_log = <<>>
    /\ sols = <<>>
    /\ beam = NoBeam

NextBeam == BeamStart \/ BeamExtend \/ BeamSelect

SpecBeam == InitBeam /\ [][NextBeam]_vars

----------------------------------------------------------------------------
(* Properties of the greedy construction *)

Extended == beam.pc # "idle" /\ beam.last.done

InheritedGroups == DOMAIN beam.last.parent.group_configs

----------------------------------------------------------------------------
(* Specification of the greedy construction on clusters of several nodes: *)
(* a planner of the default max_pp and max_op, and a model too large for  *)
(* the memory budget, so that every fill returns its skeleton.            *)

MaxNodes == 2

\* Nodes of one device and nodes of two
NodeSizes == {1, 2}

NodeBeamSizes == {1, 2}

\* max_pp and max_op of ModelParallelismSearch.__init__
DefaultMaxPP == 8
DefaultMaxOP == 4

InitBeamNodes ==
    /\ cluster_env \in {ClusterEnv(nodes * n, n, 1) :
                            nodes \in 1..MaxNodes, n \in NodeSizes}
    /\ model_datas = <<ModelData(1, PlannerSLO,
                                 ParaDict({ParallelConfig(1, 1, 1)}, 1, 2))>>
    /\ policy = NoPolicy
    /\ ret = NoRet
    /\ cap_args = [parallel_config |-> ParallelConfig(1, 1, 1), max_bs |-> 1]
    /\ cap_log = <<>>
    /\ sols = <<>>
    /\ beam = NoBeam

BeamStartDefault ==
    BeamStartWith({DefaultMaxPP}, {DefaultMaxOP}, NodeBeamSizes)

NextBeamNodes == BeamStartDefault \/ BeamExtend \/ BeamSelect

SpecBeamNodes == InitBeamNodes /\ [][NextBeamNodes]_vars

\* The cur_num whose beam is built: beam_sols[n] of the code for n in 1..
ProcessedNums == IF beam.pc = "idle" THEN {} ELSE 1..(Len(beam.beam_sols) - 1)

\* The first device of group gi of sol, devices counted from 0 in the order
\* of the groups
FirstDevice(sol, gi) ==
    SumSeq([g \in 1..(gi - 1) |-> GroupSize(sol.group_configs[g])])

LastDevice(sol, gi) == FirstDevice(sol, gi) + GroupSize(sol.group_configs[gi]) - 1

DevicesUsed(sol) ==
    SumSeq([g \in DOMAIN sol.group_configs |-> GroupSize(sol.group_configs[g])])

WithinOneNode(sol, gi) ==
    FirstDevice(sol, gi) \div cluster_env.num_devices_per_node
        = LastDevice(sol, gi) \div cluster_env.num_devices_per_node

\* C11: after cur_num is processed its beam is not empty, holds at most
\* beam_size placements, and each of them has group sizes summing to cur_num
\* with every group, laid out on consecutive devices in order, within one
\* node; hence every placement returned uses exactly num_devices devices.
C11_BeamInvariant ==
    /\ \A n \in ProcessedNums :
          LET b == beam.beam_sols[n + 1]
          IN  /\ b # <<>>
              /\ Len(b) <= policy.beam_size
              /\ \A si \in DOMAIN b :
                    /\ DevicesUsed(b[si]) = n
                    /\ Len(b[si].group_models) = Len(b[si].group_configs)
                    /\ \A gi \in DOMAIN b[si].group_configs :
                          /\ GroupSize(b[si].group_configs[gi]) >= 1
                          /\ WithinOneNode(b[si], gi)
    /\ (beam.pc = "done") =>
          /\ sols = beam.beam_sols[cluster_env.num_devices + 1]
          /\ \A si \in DOMAIN sols : DevicesUsed(sols[si]) = cluster_env.num_devices

\* greedy_group_configs returned on a cluster of several nodes of several
\* devices: a beam of more than one placement, one of them with a group that
\* fills a node and a group that ends at a node boundary without filling it.
C11_Witness ==
    /\ beam.pc = "done"
    /\ cluster_env.num_devices > cluster_env.num_devices_per_node
    /\ cluster_env.num_devices_per_node > 1
    /\ Len(sols) > 1
    /\ \E si \in DOMAIN sols :
          /\ \E gi \in DOMAIN sols[si].group_configs :
                GroupSize(sols[si].group_configs[gi]) = cluster_env.num_devices_per_node
          /\ \E gi \in DOMAIN sols[si].group_configs :
                /\ GroupSize(sols[si].group_configs[gi]) < cluster_env.num_devices_per_node
                /\ (LastDevice(sols[si], gi) + 1) % cluster_env.num_devices_per_node = 0

====
